---- MODULE Spec2Model ----
(***************************************************************************)
(* Model of the interactive viewer loop of bluscan (src/src/viewer.rs).    *)
(*                                                                         *)
(* The loop owns the device list `devices` and the table selection         *)
(* `table_state.selected()`; it shares the atomic `pause_signal` with the  *)
(* scanner and reads snapshots from the mpsc receiver `rx`.  One iteration *)
(* is draw -> input -> intake.                                             *)
(*                                                                         *)
(* usize arithmetic is modelled at a width of UsizeBits bits.  An          *)
(* overflowing `-` or `+` panics in a build with overflow checks and wraps *)
(* in a build without: either outcome is a possible step.                  *)
(*                                                                         *)
(* key, got, frame, hist, shrunk, orig, toggles and interfered observe the *)
(* loop; no step of the loop reads them.                                   *)
(***************************************************************************)
EXTENDS Integers, Sequences, FiniteSets, TLC

\* ---------------------------------------------------------------- bounds
MaxLen == 3          \* longest snapshot the producer sends
ChanCap == 2         \* snapshots that can be queued in the channel
UsizeBits == 2       \* width of usize in the model (UsizeMax >= MaxLen)

UsizeMod == 2 ^ UsizeBits
UsizeMax == UsizeMod - 1

\* ------------------------------------------------------------ data model
\* Option<T>: None is the empty sequence, Some(x) the one-element one.
None == <<>>
Some(x) == <<x>>

Placeholder == "00:00:00:00:00:00"

Ids == <<"id1", "id2", "id3", "id4", "id5", "id6", "id7", "id8">>
Addresses == <<Placeholder, "AA:02", "AA:03", Placeholder, "AA:05", "AA:06", Placeholder, "AA:08">>

\* DeviceInfo::default(): every string empty, no services.
DefaultDevice == [id |-> "", address |-> "", detected_at |-> "", services |-> 0]

\* The k-th device the scanner knows.
Device(k) == [id |-> Ids[k], address |-> Addresses[k], detected_at |-> "t", services |-> k % 2]

Roster == [k \in 1..MaxLen |-> Device(k)]

\* The snapshots the producer may send: the first n devices of the roster,
\* the empty snapshot included.
Snapshots == {SubSeq(Roster, 1, n) : n \in 0..MaxLen}

VARIABLES
    devices,          \* Vec<DeviceInfo>: the current snapshot
    selected,         \* table_state.selected(): Option<usize>
    pause_signal,     \* the shared AtomicBool
    current_state,    \* the value loaded by the `s` handler (line 152)
    chan,             \* snapshots queued in the mpsc channel
    closed,           \* every Sender has been dropped
    pc,               \* position of the loop
    frame,            \* the frame on the terminal while the loop polls for input
    key,              \* the event handled in the current iteration: "none" before it is read, "error" once a step has failed
    got,              \* the result of the try_recv that ended the last iteration
    hist,             \* the last two navigation keys handled in a row on a list of unchanged length
    shrunk,           \* an intake shrank the list below the selection and no iteration has handled Down or Up since
    orig,             \* the pause flag before the `s` keys counted by toggles; after an interfered `s` and until the intake, the flag right before its store
    toggles,          \* `s` keys handled in a row with no write by the scanner
    interfered,       \* the scanner wrote the flag between the load and the store of this iteration's `s`
    drain,            \* the companion viewer whose intake drains the channel: "off", "running" or "panicked"
    drain_devices,    \* the companion's device list
    drain_selected,   \* the companion's selection
    drain_pending     \* how many of the newest snapshots in chan the companion has not taken yet

vars == <<devices, selected, pause_signal, current_state, chan, closed, pc, frame, key, got, hist, shrunk, orig, toggles, interfered,
          drain, drain_devices, drain_selected, drain_pending>>

drainvars == <<drain, drain_devices, drain_selected, drain_pending>>

\* --------------------------------------------------------- usize arithmetic
Ok(v) == [panic |-> FALSE, val |-> v]
Panic == [panic |-> TRUE, val |-> 0]

\* a - b on usize: the outcomes the builds can produce.
Sub(a, b) == IF a >= b THEN {Ok(a - b)} ELSE {Panic, Ok(a - b + UsizeMod)}

\* a + b on usize: the outcomes the builds can produce.
Add(a, b) == IF a + b <= UsizeMax THEN {Ok(a + b)} ELSE {Panic, Ok((a + b) % UsizeMod)}

\* Vec::get(i): Some(&v[i]) when i < len, None otherwise (0-based index).
Get(v, i) == IF i < Len(v) THEN Some(v[i + 1]) ELSE None

\* Option::unwrap_or
UnwrapOr(o, d) == IF o = None THEN d ELSE o[1]

\* --------------------------------------------------------------- rendering
DeviceAddress_Raw(device) == device.address

\* Lines 57-61: the address column of one row.
DeviceAddress(device) == IF device.address = Placeholder THEN device.id ELSE device.address

\* Lines 48-70: the table rows, the selected one highlighted.
Rows(devs, sel) == [i \in 1..Len(devs) |-> [address |-> DeviceAddress(devs[i]), highlighted |-> (sel = Some(i - 1))]]

SelectedDevice_Clamped(devs, sel) == IF devs = <<>> THEN DefaultDevice ELSE IF UnwrapOr(sel, 0) < Len(devs) THEN devs[UnwrapOr(sel, 0) + 1] ELSE devs[Len(devs)]

\* Lines 99-102: the device of the detail panel.
SelectedDevice(devs, sel) == UnwrapOr(Get(devs, UnwrapOr(sel, 0)), DefaultDevice)

\* Lines 119-127: the pause/resume hint.
Hint(paused) == IF paused THEN "[s -> start scanning]" ELSE "[s -> stop scanning]"

\* Lines 33-144: the frame one draw produces.
Render(devs, sel, paused) == [rows |-> Rows(devs, sel), detail |-> SelectedDevice(devs, sel), hint |-> Hint(paused)]

NoFrame == [rows |-> <<>>, detail |-> DefaultDevice, hint |-> ""]

\* -------------------------------------------------------------- navigation
DownNext_PastEnd(sel, len) ==
    IF sel = None THEN {Ok(0)}
    ELSE IF sel[1] >= len THEN {Ok(0)}
    ELSE Add(sel[1], 1)

DownNext_EqLast(sel, len) ==
    IF sel = None THEN {Ok(0)}
    ELSE UNION {IF last.panic THEN {Panic}
                ELSE IF sel[1] = last.val THEN {Ok(0)}
                ELSE Add(sel[1], 1) : last \in Sub(len, 1)}

\* Lines 156-165: the index Down selects.
DownNext(sel, len) ==
    IF sel = None THEN {Ok(0)}
    ELSE UNION {IF last.panic THEN {Panic}
                ELSE IF sel[1] >= last.val THEN {Ok(0)}
                ELSE Add(sel[1], 1) : last \in Sub(len, 1)}

UpPrevious_NoWrap(sel, len) ==
    IF sel = None THEN {Ok(0)}
    ELSE IF sel[1] = 0 THEN {Ok(0)}
    ELSE Sub(sel[1], 1)

\* Lines 169-178: the index Up selects.
UpPrevious(sel, len) ==
    IF sel = None THEN {Ok(0)}
    ELSE IF sel[1] = 0 THEN Sub(len, 1)
    ELSE Sub(sel[1], 1)

StoredValue_Same(loaded) == loaded

StoredValue_Reload(loaded) == ~pause_signal

\* Line 153: the value `s` stores, `!current_state`.
StoredValue(loaded) == ~loaded

\* ------------------------------------------------------------------ history
Running == pc \in {"draw", "input", "s_store", "intake"}

\* One navigation key as the history keeps it: the key and the selection it
\* found.
Nav(k) == [key |-> k, sb |-> selected]

Push(h, e) == IF Len(h) < 2 THEN Append(h, e) ELSE <<h[2], e>>

\* --------------------------------------------------------------------- Init
Init_NoSelection ==
    /\ devices = <<>>
    /\ selected = None
    /\ pause_signal \in BOOLEAN
    /\ current_state = FALSE
    /\ chan = <<>>
    /\ closed = FALSE
    /\ pc = "draw"
    /\ frame = NoFrame
    /\ key = "none"
    /\ got = "none"
    /\ hist = <<>>
    /\ shrunk = FALSE
    /\ orig = pause_signal
    /\ toggles = 0
    /\ interfered = FALSE
    /\ drain = "off"
    /\ drain_devices = <<>>
    /\ drain_selected = Some(0)
    /\ drain_pending = 0

\* Lines 27-29: selection Some(0), no devices; nothing sent yet.
Init ==
    /\ devices = <<>>
    /\ selected = Some(0)
    /\ pause_signal \in BOOLEAN
    /\ current_state = FALSE
    /\ chan = <<>>
    /\ closed = FALSE
    /\ pc = "draw"
    /\ frame = NoFrame
    /\ key = "none"
    /\ got = "none"
    /\ hist = <<>>
    /\ shrunk = FALSE
    /\ orig = pause_signal
    /\ toggles = 0
    /\ interfered = FALSE
    /\ drain = "off"
    /\ drain_devices = <<>>
    /\ drain_selected = Some(0)
    /\ drain_pending = 0

\* ------------------------------------------------------------------ actions
\* Lines 33-144: terminal.draw succeeds.
Draw ==
    /\ pc = "draw"
    /\ frame' = Render(devices, selected, pause_signal)
    /\ got' = "none"
    /\ pc' = "input"
    /\ UNCHANGED <<devices, selected, pause_signal, current_state, chan, closed, key, hist, shrunk, orig, toggles, interfered>>
    /\ UNCHANGED drainvars

\* Line 144: terminal.draw fails and `?` returns the error.
DrawError ==
    /\ pc = "draw"
    /\ key' = "error"
    /\ pc' = "error"
    /\ UNCHANGED <<devices, selected, pause_signal, current_state, chan, closed, frame, got, hist, shrunk, orig, toggles, interfered>>
    /\ UNCHANGED drainvars

InputError_Retry ==
    /\ pc = "input"
    /\ key' = "error"
    /\ pc' = "draw"
    /\ frame' = NoFrame
    /\ UNCHANGED <<devices, selected, pause_signal, current_state, chan, closed, got, hist, shrunk, orig, toggles, interfered>>
    /\ UNCHANGED drainvars

\* Lines 147-148: event::poll or event::read fails and `?` returns the error.
InputError ==
    /\ pc = "input"
    /\ key' = "error"
    /\ pc' = "error"
    /\ frame' = NoFrame
    /\ UNCHANGED <<devices, selected, pause_signal, current_state, chan, closed, got, hist, shrunk, orig, toggles, interfered>>
    /\ UNCHANGED drainvars

\* Line 147: the poll times out; nothing is read.
PollTimeout ==
    /\ pc = "input"
    /\ key' = "none"
    /\ pc' = "intake"
    /\ frame' = NoFrame
    /\ UNCHANGED <<devices, selected, pause_signal, current_state, chan, closed, got, hist, shrunk, orig, toggles, interfered>>
    /\ UNCHANGED drainvars

KeyOther_Continue ==
    /\ pc = "input"
    /\ \E k \in {"nonkey", "other"} : key' = k
    /\ pc' = "draw"
    /\ frame' = NoFrame
    /\ hist' = <<>>
    /\ orig' = pause_signal
    /\ toggles' = 0
    /\ UNCHANGED <<devices, selected, pause_signal, current_state, chan, closed, got, shrunk, interfered>>
    /\ UNCHANGED drainvars

KeyOther_Resets ==
    /\ pc = "input"
    /\ \E k \in {"nonkey", "other"} : key' = k
    /\ selected' = Some(0)
    /\ pc' = "intake"
    /\ frame' = NoFrame
    /\ hist' = <<>>
    /\ orig' = pause_signal
    /\ toggles' = 0
    /\ UNCHANGED <<devices, pause_signal, current_state, chan, closed, got, shrunk, interfered>>
    /\ UNCHANGED drainvars

\* Lines 148, 181: an event that is no key event, or a key with no binding.
KeyOther ==
    /\ pc = "input"
    /\ \E k \in {"nonkey", "other"} : key' = k
    /\ pc' = "intake"
    /\ frame' = NoFrame
    /\ hist' = <<>>
    /\ orig' = pause_signal
    /\ toggles' = 0
    /\ UNCHANGED <<devices, selected, pause_signal, current_state, chan, closed, got, shrunk, interfered>>
    /\ UNCHANGED drainvars

KeyQ_ThenIntake ==
    /\ pc = "input"
    /\ key' = "q"
    /\ pc' = "intake"
    /\ frame' = NoFrame
    /\ hist' = <<>>
    /\ orig' = pause_signal
    /\ toggles' = 0
    /\ UNCHANGED <<devices, selected, pause_signal, current_state, chan, closed, got, shrunk, interfered>>
    /\ UNCHANGED drainvars

\* Line 150: `q` breaks out of the loop; line 194 returns Ok(()).
KeyQ ==
    /\ pc = "input"
    /\ key' = "q"
    /\ pc' = "done"
    /\ frame' = NoFrame
    /\ hist' = <<>>
    /\ orig' = pause_signal
    /\ toggles' = 0
    /\ UNCHANGED <<devices, selected, pause_signal, current_state, chan, closed, got, shrunk, interfered>>
    /\ UNCHANGED drainvars

\* Line 152: `s` loads the pause flag.
KeySLoad ==
    /\ pc = "input"
    /\ key' = "s"
    /\ current_state' = pause_signal
    /\ pc' = "s_store"
    /\ frame' = NoFrame
    /\ hist' = <<>>
    /\ interfered' = FALSE
    /\ UNCHANGED <<devices, selected, pause_signal, chan, closed, got, shrunk, orig, toggles>>
    /\ UNCHANGED drainvars

\* Line 153: `s` stores the negation of the loaded value; current_state
\* goes out of scope.
KeySStore ==
    /\ pc = "s_store"
    /\ pause_signal' = StoredValue(current_state)
    /\ current_state' = FALSE
    /\ pc' = "intake"
    /\ IF interfered
       THEN /\ orig' = pause_signal
            /\ toggles' = 0
       ELSE IF toggles < 2
       THEN /\ toggles' = toggles + 1
            /\ UNCHANGED orig
       ELSE /\ toggles' = 1
            /\ orig' = pause_signal
    /\ UNCHANGED <<devices, selected, chan, closed, frame, key, got, hist, shrunk, interfered>>
    /\ UNCHANGED drainvars

\* The companion handles the same Down or Up key on its own list.
DrainNav(outcomes) ==
    IF drain = "running"
    THEN /\ \E next \in outcomes :
               IF next.panic
               THEN /\ drain' = "panicked"
                    /\ UNCHANGED drain_selected
               ELSE /\ drain_selected' = Some(next.val)
                    /\ UNCHANGED drain
         /\ UNCHANGED <<drain_devices, drain_pending>>
    ELSE UNCHANGED drainvars

\* Lines 155-167: Down.
KeyDown ==
    /\ pc = "input"
    /\ key' = "Down"
    /\ \E next \in DownNext(selected, Len(devices)) :
          IF next.panic
          THEN /\ pc' = "panicked"
               /\ UNCHANGED selected
          ELSE /\ pc' = "intake"
               /\ selected' = Some(next.val)
    /\ frame' = NoFrame
    /\ hist' = Push(hist, Nav("Down"))
    /\ orig' = pause_signal
    /\ toggles' = 0
    /\ UNCHANGED <<devices, pause_signal, current_state, chan, closed, got, shrunk, interfered>>
    /\ DrainNav(DownNext(drain_selected, Len(drain_devices)))

\* Lines 168-180: Up.
KeyUp ==
    /\ pc = "input"
    /\ key' = "Up"
    /\ \E previous \in UpPrevious(selected, Len(devices)) :
          IF previous.panic
          THEN /\ pc' = "panicked"
               /\ UNCHANGED selected
          ELSE /\ pc' = "intake"
               /\ selected' = Some(previous.val)
    /\ frame' = NoFrame
    /\ hist' = Push(hist, Nav("Up"))
    /\ orig' = pause_signal
    /\ toggles' = 0
    /\ UNCHANGED <<devices, pause_signal, current_state, chan, closed, got, shrunk, interfered>>
    /\ DrainNav(UpPrevious(drain_selected, Len(drain_devices)))

\* rx.try_recv() of line 187: the oldest queued snapshot; Err(Empty) or
\* Err(Disconnected), here None, when nothing is queued.
TryRecv(queue) == IF queue # <<>> THEN Some(Head(queue)) ELSE None

NewDevices_Ignore(received, devs) == devs

NewDevices_OrDefault(received, devs) == IF received # None THEN received[1] ELSE <<>>

NewDevices_Extend(received, devs) == IF received # None THEN devs \o received[1] ELSE devs

\* Lines 187-188: the device list after the intake.
NewDevices(received, devs) == IF received # None THEN received[1] ELSE devs

NewSelected_Reset(sel) == Some(0)

\* Lines 189-191: the selection after an intake that received a snapshot.
NewSelected(sel) == IF sel = None THEN Some(0) ELSE sel

\* The selection lies beyond the end of a list of length len.
Beyond(sel, len) == sel # None /\ sel[1] >= len

\* The companion's intake: try_recv until the channel is empty, each snapshot
\* replacing the list as at lines 188-191, so that the newest one stays.
DrainIntake ==
    IF drain = "running"
    THEN /\ drain_devices' = IF drain_pending > 0 THEN chan[Len(chan)] ELSE drain_devices
         /\ drain_selected' = IF drain_pending > 0 THEN NewSelected(drain_selected) ELSE drain_selected
         /\ drain_pending' = 0
         /\ UNCHANGED drain
    ELSE UNCHANGED drainvars

\* A snapshot sent reaches the companion too.
DrainSend ==
    IF drain = "running"
    THEN /\ drain_pending' = drain_pending + 1
         /\ UNCHANGED <<drain, drain_devices, drain_selected>>
    ELSE UNCHANGED drainvars

\* Lines 187-192: the intake step, the end of the iteration.
Intake ==
    /\ pc = "intake"
    /\ LET received == TryRecv(chan)
           pending == shrunk /\ key \notin {"Down", "Up"}
       IN /\ devices' = NewDevices(received, devices)
          /\ IF received # None
             THEN /\ chan' = Tail(chan)
                  /\ selected' = NewSelected(selected)
                  /\ got' = "ok"
                  /\ hist' = IF Len(devices') # Len(devices) THEN <<>> ELSE hist
                  /\ shrunk' = /\ Beyond(selected, Len(devices'))
                               /\ Len(devices') < Len(devices) \/ pending
             ELSE /\ UNCHANGED <<chan, selected, hist>>
                  /\ got' = IF closed THEN "disconnected" ELSE "empty"
                  /\ shrunk' = pending
    /\ pc' = "draw"
    /\ key' = "none"
    /\ interfered' = FALSE
    /\ orig' = IF toggles = 0 THEN pause_signal ELSE orig
    /\ UNCHANGED <<pause_signal, current_state, closed, frame, toggles>>
    /\ DrainIntake

\* The producer sends a snapshot.
Send ==
    /\ Running
    /\ ~closed
    /\ Len(chan) < ChanCap
    /\ \E s \in Snapshots : chan' = Append(chan, s)
    /\ UNCHANGED <<devices, selected, pause_signal, current_state, closed, pc, frame, key, got, hist, shrunk, orig, toggles, interfered>>
    /\ DrainSend

\* The producer drops its Sender.
Close ==
    /\ Running
    /\ ~closed
    /\ closed' = TRUE
    /\ UNCHANGED <<devices, selected, pause_signal, current_state, chan, pc, frame, key, got, hist, shrunk, orig, toggles, interfered>>
    /\ UNCHANGED drainvars

\* The scanner stores a value in the pause flag.
ScannerWrite ==
    /\ Running
    /\ \E b \in BOOLEAN : pause_signal' = b
    /\ IF pc = "s_store"
       THEN /\ interfered' = TRUE
            /\ UNCHANGED <<orig, toggles>>
       ELSE /\ orig' = pause_signal'
            /\ toggles' = 0
            /\ UNCHANGED interfered
    /\ UNCHANGED <<devices, selected, current_state, chan, closed, pc, frame, key, got, hist, shrunk>>
    /\ UNCHANGED drainvars

Next ==
    \/ Draw
    \/ DrawError
    \/ InputError
    \/ PollTimeout
    \/ KeyOther
    \/ KeyQ
    \/ KeySLoad
    \/ KeySStore
    \/ KeyDown
    \/ KeyUp
    \/ Intake
    \/ Send
    \/ Close
    \/ ScannerWrite

Spec == Init /\ [][Next]_vars

\* ------------------------------------------------------------------- claims
\* The selection is an index of the list.
InRange(sel, devs) == sel # None /\ sel[1] < Len(devs)

\* The latest navigation key of the history.
LastNav == hist[Len(hist)]

\* The event k was handled in this iteration and the intake has not run yet:
\* devices is still the list the handler saw.
Handled(k) == key = k /\ pc \in {"intake", "panicked"}

\* C1: with an empty snapshot, handling Down or Up neither panics nor wraps
\* and leaves the selection at index 0.
C1_EmptyNavKeepsZero ==
    ((Handled("Down") \/ Handled("Up")) /\ devices = <<>>)
        => (pc = "intake" /\ selected = Some(0))

\* C2: after a snapshot was replaced by a shorter one so that the selection
\* lies beyond the new last index, the next Up key selects a valid index of
\* the new snapshot.  Stated for a non-empty new snapshot, where no usize
\* underflow is involved.
C2_UpRecovers ==
    (Handled("Up") /\ shrunk /\ Len(devices) >= 1)
        => (pc = "intake" /\ InRange(selected, devices))

\* C3: after a non-empty snapshot replaced a longer one while the selection
\* lies beyond the new last index, the next Down key selects index 0.
C3_DownAfterShrink ==
    (Handled("Down") /\ shrunk /\ Len(devices) >= 1)
        => (pc = "intake" /\ selected = Some(0))

C3_Witness ==
    /\ Handled("Down")
    /\ shrunk
    /\ Len(devices) >= 2
    /\ hist # <<>>
    /\ Beyond(LastNav.sb, Len(devices))
    /\ selected = Some(0)

\* C4: the selection, when present, is a valid index of the current snapshot
\* in every state, except between an intake that shrank the snapshot below it
\* and the handling of the next input event.  Stated in its weakest reading:
\* for a non-empty snapshot, the exception lasting until a Down or Up key has
\* been handled.
C4_SelectionValid ==
    (selected # None /\ devices # <<>> /\ pc # "panicked")
        => (InRange(selected, devices) \/ (shrunk /\ key \notin {"Down", "Up"}))

\* C5: on a list of length >= 1 and from a valid index i, Down followed by Up
\* and Up followed by Down, the length unchanged in between, select i again.
C5_RoundTrip ==
    (Len(hist) = 2 /\ hist[1].key # hist[2].key /\ InRange(hist[1].sb, devices))
        => (pc # "panicked" /\ selected = hist[1].sb)

C5_Witness ==
    /\ Len(hist) = 2
    /\ hist[1].key = "Down"
    /\ hist[2].key = "Up"
    /\ Len(devices) = MaxLen
    /\ hist[1].sb = Some(MaxLen - 1)
    /\ hist[2].sb = Some(0)
    /\ selected = Some(MaxLen - 1)

\* C6: on a list of length len >= 1, Down selects 0 from len-1 and i+1 from
\* i < len-1; Up selects len-1 from 0 and i-1 from 0 < i < len.
C6_NavStep ==
    ((Handled("Down") \/ Handled("Up")) /\ hist # <<>> /\ InRange(LastNav.sb, devices))
        => LET i == LastNav.sb[1]
               len == Len(devices)
           IN /\ pc = "intake"
              /\ key = "Down" => selected = Some(IF i = len - 1 THEN 0 ELSE i + 1)
              /\ key = "Up" => selected = Some(IF i = 0 THEN len - 1 ELSE i - 1)

C6_Witness ==
    /\ Handled("Down")
    /\ hist # <<>>
    /\ Len(devices) = MaxLen
    /\ LastNav.sb = Some(MaxLen - 1)
    /\ selected = Some(0)

\* C7: with no write by the scanner in between, one `s` key leaves the pause
\* flag negated and two `s` keys leave it as it was.
C7_Toggle ==
    ~interfered =>
        /\ toggles = 1 => pause_signal = ~orig
        /\ toggles = 2 => pause_signal = orig

C7_Witness ==
    /\ key = "s"
    /\ pc = "intake"
    /\ ~interfered
    /\ toggles = 2
    /\ pause_signal = orig

\* C8: the iteration that handles `q` ends the loop without an intake: the
\* queued snapshots, the device list, the selection and the pause flag stay as
\* they were, and nothing happens after the loop has returned.
C8_QuitSkipsIntake ==
    [][/\ (pc = "input" /\ key' = "q") =>
            /\ pc' = "done"
            /\ chan' = chan
            /\ devices' = devices
            /\ selected' = selected
            /\ pause_signal' = pause_signal
       /\ pc = "done" => UNCHANGED <<pc, chan, devices, selected, pause_signal>>]_vars

C8_Witness ==
    /\ pc = "done"
    /\ key = "q"
    /\ Len(chan) = ChanCap
    /\ devices # Head(chan)

\* C9: a draw never fails because of the selection: whatever the selection
\* and the snapshot, the detail panel shows the device at the selection when
\* it is in range and the default device otherwise, and the draw changes
\* neither the device list nor the pause flag.
C9_RenderTolerant ==
    [][(pc = "draw" /\ pc' # "draw") =>
            /\ pc' \in {"input", "error"}
            /\ devices' = devices
            /\ pause_signal' = pause_signal
            /\ pc' = "input" =>
                  frame'.detail = IF InRange(selected, devices)
                                  THEN devices[selected[1] + 1]
                                  ELSE DefaultDevice]_vars

C9_Witness ==
    /\ pc = "input"
    /\ devices # <<>>
    /\ Beyond(selected, Len(devices))
    /\ frame.detail = DefaultDevice
    /\ Len(frame.rows) = Len(devices)

\* C10: once the sending side is closed it stays closed and nothing more is
\* queued; an intake then still takes the oldest queued snapshot, and with
\* nothing queued it leaves the device list alone and the loop goes on.
C10_ClosedIsEmpty ==
    [][/\ closed => (closed' /\ Len(chan') <= Len(chan))
       /\ (closed /\ pc = "intake" /\ pc' # "intake") =>
            /\ pc' = "draw"
            /\ IF chan = <<>>
               THEN devices' = devices /\ chan' = chan
               ELSE devices' = Head(chan) /\ chan' = Tail(chan)]_vars

C10_Witness ==
    /\ got = "disconnected"
    /\ pc = "draw"
    /\ devices # <<>>

\* The viewer and its companion start together, before the first draw.
DrainInit ==
    /\ devices = <<>>
    /\ selected = Some(0)
    /\ pause_signal = FALSE
    /\ current_state = FALSE
    /\ chan = <<>>
    /\ closed = FALSE
    /\ pc = "draw"
    /\ frame = NoFrame
    /\ key = "none"
    /\ got = "none"
    /\ hist = <<>>
    /\ shrunk = FALSE
    /\ orig = pause_signal
    /\ toggles = 0
    /\ interfered = FALSE
    /\ drain = "running"
    /\ drain_devices = <<>>
    /\ drain_selected = Some(0)
    /\ drain_pending = 0

\* The steps that bear on the device list and on the selection: every step
\* of the loop but the `s` key, which touches the pause flag only, and the
\* producer.
DrainNext ==
    \/ Draw
    \/ DrawError
    \/ InputError
    \/ PollTimeout
    \/ KeyOther
    \/ KeyQ
    \/ KeyDown
    \/ KeyUp
    \/ Intake
    \/ Send
    \/ Close

\* The viewer together with the companion, fed the same keys and snapshots.
DrainSpec == DrainInit /\ [][DrainNext]_vars

\* The steps of the viewer's own thread.
Loop ==
    \/ Draw
    \/ DrawError
    \/ InputError
    \/ PollTimeout
    \/ KeyOther
    \/ KeyQ
    \/ KeySLoad
    \/ KeySStore
    \/ KeyDown
    \/ KeyUp
    \/ Intake

\* Lines 31, 147: the loop's thread keeps running and event::poll returns
\* within 100 ms, so a loop that has not ended always takes its next step.
\* Nothing is assumed about the producer, the scanner or the keys pressed.
FairSpec == Spec /\ WF_vars(Loop)

\* A step of the loop, as opposed to one of the producer or the scanner.
LoopStep == pc' # pc

\* C11: an error of the draw or of the input poll/read ends the loop in the
\* same iteration, before any event is handled and before the intake; the
\* device list, the selection, the pause flag and the channel are left as they
\* were, and nothing is retried afterwards.
C11_ErrorEndsLoop ==
    [][/\ (key' = "error" /\ key # "error") =>
            /\ pc \in {"draw", "input"}
            /\ key = "none"
            /\ pc' = "error"
            /\ UNCHANGED <<devices, selected, pause_signal, chan, got>>
       /\ pc = "error" => UNCHANGED <<pc, devices, selected, pause_signal, chan, got>>]_vars

C11_Witness ==
    /\ pc = "error"
    /\ key = "error"
    /\ got = "none"
    /\ devices # <<>>
    /\ chan # <<>>

\* C12: in the frame of a draw, the address column of every row shows the
\* device's id when its address is the placeholder and its address otherwise.
C12_AddressColumn ==
    pc = "input" =>
        /\ Len(frame.rows) = Len(devices)
        /\ \A i \in 1..Len(devices) :
              frame.rows[i].address =
                  IF devices[i].address = "00:00:00:00:00:00"
                  THEN devices[i].id
                  ELSE devices[i].address

C12_Witness ==
    /\ pc = "input"
    /\ Len(devices) >= 2
    /\ devices[1].address = Placeholder
    /\ frame.rows[1].address = devices[1].id
    /\ devices[2].address # Placeholder
    /\ frame.rows[2].address = devices[2].address

\* C13: an intake takes at most one snapshot, the oldest queued, and the
\* device list then is exactly that snapshot; what else is queued stays
\* queued in order, and no other step of the loop takes from the channel.
C13_OnePerIteration ==
    [][LoopStep =>
          IF pc = "intake"
          THEN IF chan # <<>>
               THEN devices' = Head(chan) /\ chan' = Tail(chan)
               ELSE devices' = devices /\ chan' = chan
          ELSE devices' = devices /\ chan' = chan]_vars

C13_Witness ==
    /\ pc = "draw"
    /\ got = "ok"
    /\ closed
    /\ devices # <<>>
    /\ chan # <<>>
    /\ Head(chan) # devices

\* C14: an intake leaves a selection that is set as it is, whatever the
\* length of the new snapshot, and does not change the pause flag.
C14_IntakeKeepsSelection ==
    [][(LoopStep /\ pc = "intake") =>
            /\ selected # None => selected' = selected
            /\ pause_signal' = pause_signal]_vars

C14_Witness ==
    /\ pc = "draw"
    /\ got = "ok"
    /\ devices # <<>>
    /\ Beyond(selected, Len(devices))
    /\ shrunk

\* C15: the input step changes only what its key owns: no key changes the
\* device list; `s` changes only the pause flag; Down and Up change only the
\* selection; a timeout, a non-key event and any other key change nothing.
C15_KeyFrame ==
    [][(LoopStep /\ pc \in {"input", "s_store"}) =>
            /\ devices' = devices
            /\ chan' = chan
            /\ key' \in {"none", "nonkey", "other", "q", "error"} =>
                  selected' = selected /\ pause_signal' = pause_signal
            /\ key' = "s" => selected' = selected
            /\ key' \in {"Down", "Up"} => pause_signal' = pause_signal]_vars

C15_Witness ==
    /\ key = "other"
    /\ pc = "intake"
    /\ devices # <<>>
    /\ selected # Some(0)
    /\ chan # <<>>

\* C16: the loop ends only by `q` (Ok) or by an error of the draw or of the
\* input poll/read; no other key ends it.
C16_OnlyQuitEnds ==
    ~Running => \/ pc = "done" /\ key = "q"
                \/ pc = "error" /\ key = "error"

\* C17: when the loop is scheduled fairly, every snapshot in the channel is
\* eventually received and becomes the device list, and is then drawn,
\* unless the loop has ended; whatever keys are pressed in between.
C17_EventuallyDrained ==
    \A s \in Snapshots :
        /\ (\E i \in 1..Len(chan) : chan[i] = s)
               ~> ((pc = "draw" /\ got = "ok" /\ devices = s) \/ ~Running)
        /\ (pc = "draw" /\ got = "ok" /\ devices = s)
               ~> ((pc = "input" /\ Len(frame.rows) = Len(s)) \/ ~Running)

C17_Witness ==
    /\ pc = "draw"
    /\ got = "ok"
    /\ toggles = 1
    /\ devices # <<>>
    /\ chan # <<>>

\* C18 as stated: once the channel is empty, a viewer that drains the whole
\* channel at each intake holds the same device list and the same selection
\* as the viewer that takes one snapshot per iteration.
C18_DrainEquivalent ==
    (drain = "running" /\ Running /\ chan = <<>>) =>
        /\ drain_devices = devices
        /\ drain_selected = selected

\* C18, amended: once the channel is empty, both viewers hold the same
\* device list.
C18_DrainSameDevices ==
    (drain = "running" /\ Running /\ chan = <<>>) => drain_devices = devices

C18_Witness ==
    /\ drain = "running"
    /\ pc = "draw"
    /\ got = "ok"
    /\ chan = <<>>
    /\ devices # <<>>
    /\ drain_devices = devices
    /\ InRange(selected, devices)
    /\ InRange(drain_selected, devices)
    /\ drain_selected # selected

\* C19: the selection is never absent.
C19_AlwaysSelected == selected # None

C19_Witness ==
    /\ pc = "draw"
    /\ got = "ok"
    /\ hist # <<>>
    /\ selected # None
    /\ Beyond(selected, Len(devices))

\* C20: the store of `s` writes the negation of the value loaded; when the
\* scanner has changed the flag between the load and the store, the store
\* puts back the value the flag held right before it, so the scanner's write
\* is lost and the flag is not negated.
C20_LostWrite ==
    [][(pc = "s_store" /\ pc' = "intake") =>
            /\ pause_signal' = ~current_state
            /\ pause_signal # current_state =>
                  (interfered /\ pause_signal' # ~pause_signal)]_vars

\* C20 as stated: after any write of the scanner between the load and the
\* store, the flag is not the negation of the value it held before the store.
C20_AnyWriteLost ==
    [][(pc = "s_store" /\ pc' = "intake" /\ interfered) =>
            /\ pause_signal' = ~current_state
            /\ pause_signal' # ~pause_signal]_vars

C20_Witness ==
    /\ key = "s"
    /\ pc = "intake"
    /\ interfered
    /\ toggles = 0
    /\ pause_signal = orig

TypeOK ==
    /\ devices \in Snapshots
    /\ selected \in {None} \cup {Some(i) : i \in 0..UsizeMax}
    /\ pause_signal \in BOOLEAN
    /\ Len(chan) <= ChanCap
    /\ pc \in {"draw", "input", "s_store", "intake", "done", "error", "panicked"}
    /\ drain \in {"off", "running", "panicked"}
    /\ drain_devices \in Snapshots
    /\ drain_selected \in {None} \cup {Some(i) : i \in 0..UsizeMax}
    /\ drain_pending \in 0..ChanCap
    /\ drain = "running" => drain_pending <= Len(chan)

====
